---- MODULE Spec2Model ----
(***************************************************************************)
(* Model of the currency-exchange gateway of src/main.py: the handlers     *)
(* test_database, get_rates, convert_currency and list_transactions, the   *)
(* rate provider they call over HTTP and the storage collaborator          *)
(* (module `database`) they import.                                        *)
(*                                                                         *)
(* Values.  Text that the code transforms (upper-casing, str(), isoformat) *)
(* is a sequence of one-character strings, so that a conversion is         *)
(* computed and never the identity.  A JSON value of a provider body and a *)
(* Python value of a stored document carry their type in the field t and   *)
(* their content in the field v.  Floats are modelled by integers.         *)
(***************************************************************************)
EXTENDS Integers, Sequences, FiniteSets, TLC

VARIABLES
    pc,        \* "idle": no request in progress; "done": a handler has returned
    op,        \* the handler that ran: "none", "convert", "rates", "list", "diag"
    req,       \* the inputs of the request
    reply,     \* what the rate provider answered to this request
    env,       \* the state of the storage collaborator and environment seen by this request
    outbound,  \* the provider calls issued during this request, in order
    dbWrites,  \* the storage writes attempted during this request, in order
    dbReads,   \* the number of storage reads attempted during this request
    resp,      \* the HTTP response of the request: [status, body]
    store      \* the documents of the storage collection "exchange", oldest first

vars == <<pc, op, req, reply, env, outbound, dbWrites, dbReads, resp, store>>

(***************************************************************************)
(* Bounds of the model.                                                    *)
(***************************************************************************)
\* the largest amount a request carries
MaxAmount == 3
\* the largest rate the provider reports
MaxRate == 2
\* the explicit result the provider reports
MaxResult == 5
\* the number of documents the model lets the collection hold
MaxStore == 2
\* the largest limit a listing request carries
MaxLimit == 3
\* the largest number of collections the store reports
MaxCollections == 11

(***************************************************************************)
(* HTTP status codes.                                                      *)
(***************************************************************************)
\* a handler that returns normally
HTTP_OK == 200
\* HTTPException(status_code=502, ...)
HTTP_BAD_GATEWAY == 502
\* the framework's answer to a body that fails the ConvertRequest model
HTTP_UNPROCESSABLE == 422
\* the framework's answer to an exception no handler catches
HTTP_SERVER_ERROR == 500

(***************************************************************************)
(* Text.                                                                   *)
(***************************************************************************)
UpperMap ==
    [u |-> "U", s |-> "S", d |-> "D", e |-> "E", r |-> "R", o |-> "O", g |-> "G",
     b |-> "B", p |-> "P"]

\* str.upper(): every cased character to upper case, the others unchanged
Upper(s) == [i \in 1..Len(s) |-> IF s[i] \in DOMAIN UpperMap THEN UpperMap[s[i]] ELSE s[i]]

DigitChars == <<"0", "1", "2", "3", "4", "5", "6", "7", "8", "9">>

RECURSIVE Digits(_)
Digits(n) ==
    IF n < 10 THEN <<DigitChars[n + 1]>>
    ELSE Digits(n \div 10) \o <<DigitChars[(n % 10) + 1]>>

(***************************************************************************)
(* JSON values of a provider body, Python values of a stored document.     *)
(***************************************************************************)
JNull == [t |-> "null", v |-> 0]
JNum(n) == [t |-> "num", v |-> n]
JBool(b) == [t |-> "bool", v |-> b]
JStr(s) == [t |-> "str", v |-> s]
JObj(f) == [t |-> "obj", v |-> f]

EmptyMap == [k \in {} |-> 0]

\* dict.get(k, default)
Get(d, k, default) == IF k \in DOMAIN d THEN d[k] ELSE default

\* Python truthiness, as `not x` and `x or y` use it
Truthy(x) ==
    CASE x.t = "null" -> FALSE
      [] x.t = "bool" -> x.v
      [] x.t = "num" -> x.v # 0
      [] x.t = "str" -> Len(x.v) > 0
      [] x.t = "obj" -> DOMAIN x.v # {}

PyStr(s) == [t |-> "str", v |-> s]
PyFloat(x) == [t |-> "float", v |-> x]
PyObjectId(n) == [t |-> "ObjectId", v |-> n]
PyDatetime(n) == [t |-> "datetime", v |-> n]
PyDict(f) == [t |-> "dict", v |-> f]
PyNone == [t |-> "NoneType", v |-> 0]

\* str(v) of a stored value
Str(x) ==
    CASE x.t = "ObjectId" -> <<"o", "i", "d">> \o Digits(x.v)
      [] x.t = "str" -> x.v
      [] x.t = "float" -> Digits(x.v)
      [] x.t = "datetime" -> <<"d", "t">> \o Digits(x.v)
      [] OTHER -> <<"N", "o", "n", "e">>

\* datetime.isoformat()
IsoFormat(x) == <<"T">> \o Digits(x.v)

(***************************************************************************)
(* The storage collaborator: module `database`, which is not part of the   *)
(* source tree.  create_document(collection, record) stores the record and *)
(* returns its identifier; get_documents(collection, limit) returns up to  *)
(* limit records, most recent first.                                       *)
(***************************************************************************)
TextKeys == {"from_currency", "to_currency"}

\* the stored form of a record: its text fields as str, its numbers as float
ToPy(data) ==
    [k \in DOMAIN data |-> IF k \in TextKeys THEN PyStr(data[k]) ELSE PyFloat(data[k])]

\* create_document: the new document gets the next ObjectId and a timestamp;
\* the identifier returned is the string form of that ObjectId
CreateDocument(st, data) ==
    LET n == Len(st) + 1
        rec == ToPy(data)
        doc == PyDict([k \in DOMAIN rec \cup {"_id", "created_at"} |->
                          IF k = "_id" THEN PyObjectId(n)
                          ELSE IF k = "created_at" THEN PyDatetime(n)
                          ELSE rec[k]])
    IN  [store |-> Append(st, doc), id |-> Str(PyObjectId(n))]

\* get_documents: the most recent `limit` documents, most recent first
GetDocuments(st, limit) ==
    LET n == IF limit < Len(st) THEN limit ELSE Len(st)
    IN  [i \in 1..n |-> st[Len(st) + 1 - i]]

(***************************************************************************)
(* ConvertCurrency: POST /api/convert                                      *)
(***************************************************************************)
usd == <<"u", "s", "d">>
eUr == <<"e", "U", "r">>
InvalidCodes == {<<"e", "u">>, <<"e", "u", "r", "o">>}
FromCodes == {usd} \cup InvalidCodes
ToCodes == {eUr} \cup InvalidCodes
Amounts == {0 - 1, 0, MaxAmount}

ConvertRequests ==
    [from_currency : FromCodes, to_currency : ToCodes, amount : Amounts]

\* the JSON object whose fields are those of the record opts that are present
\* (opts[k] = <<value>>) and not those that are absent (opts[k] = <<>>)
Fields(opts) == [k \in {j \in DOMAIN opts : opts[j] # <<>>} |-> opts[k][1]]

RateOpts == {<<>>, <<JNum(0 - 1)>>, <<JNum(0)>>, <<JNum(MaxRate)>>}
InfoOpts == {<<>>, <<JNull>>} \cup {<<JObj(Fields([rate |-> r]))>> : r \in RateOpts}
ResultOpts == {<<>>, <<JNull>>, <<JNum(0)>>, <<JNum(MaxResult)>>}

\* the bodies of the provider's convert endpoint: {success?, info?: {rate?}, result?};
\* the success flag is absent, or true, or false
ConvertBodies ==
    {Fields([info |-> i, result |-> r]) : i \in InfoOpts, r \in ResultOpts}
    \cup {Fields([success |-> <<JBool(b)>>, info |-> <<JObj([rate |-> JNum(MaxRate)])>>,
                  result |-> r]) : b \in BOOLEAN, r \in ResultOpts}

\* no provider call was issued, so there is no reply
NoReply == [net |-> "none", body |-> EmptyMap]

\* net = "transport": requests.get raises (timeout, DNS, refused connection);
\* net = "http_error": the status is not 2xx and raise_for_status raises;
\* net = "ok": the body is the JSON object `body`
FailedReplies == {[net |-> n, body |-> EmptyMap] : n \in {"transport", "http_error"}}
ConvertReplies == FailedReplies \cup {[net |-> "ok", body |-> b] : b \in ConvertBodies}

\* the storage collaborator and the environment as one request sees them:
\* db is what the collaborator does, url and name whether DATABASE_URL and
\* DATABASE_NAME are set, ncols the number of collections the store reports
EnvOf(db, url, name, ncols) == [db |-> db, url |-> url, name |-> name, ncols |-> ncols]
NoEnv == EnvOf("unused", FALSE, FALSE, 0)

\* what the storage collaborator does in a conversion: "absent": the import of
\* `database` raises ImportError; "raises": the call raises; "ok": it succeeds
DbStates == {"absent", "raises", "ok"}

\* a payload model whose codes have a minimum length only
ValidRequestNoMaxLength(p) ==
    /\ Len(p.from_currency) >= 3
    /\ Len(p.to_currency) >= 3
    /\ p.amount >= 0

\* the ConvertRequest model: Field(min_length=3, max_length=3), Field(ge=0)
ValidRequest(p) ==
    /\ Len(p.from_currency) >= 3
    /\ Len(p.from_currency) <= 3
    /\ Len(p.to_currency) >= 3
    /\ Len(p.to_currency) <= 3
    /\ p.amount >= 0

\* a second requests.get after the first
ConvertCallsRetried(from, to, amount) ==
    LET call == [endpoint |-> "/convert",
                 params |-> [from |-> from, to |-> to, amount |-> amount]]
    IN  <<call, call>>

\* the provider calls of convert_currency: one requests.get
ConvertCalls(from, to, amount) ==
    << [endpoint |-> "/convert",
        params |-> [from |-> from, to |-> to, amount |-> amount]] >>

\* requests.get or raise_for_status raises requests.RequestException
ProviderRaises(r) == r.net # "ok"

\* the success flag of the body is not looked at
FlagIgnored(data) == FALSE

\* `not data.get("success", True)`
FlagFailed(data) == ~Truthy(Get(data, "success", JBool(TRUE)))

\* a rate of 1 where the provider gives none
ConvertRateDefaultOne(info) ==
    LET x == Get(info, "rate", JNull)
    IN  IF Truthy(x) THEN x.v ELSE 1

\* float(info.get("rate") or 0)
ConvertRate(info) ==
    LET x == Get(info, "rate", JNull)
    IN  IF Truthy(x) THEN x.v ELSE 0

\* the fallback taken only when the result field is absent
ConvertResultOnlyWhenAbsent(data, rate, amount) ==
    IF "result" \in DOMAIN data /\ data["result"].t = "num"
    THEN data["result"].v
    ELSE rate * amount

\* float(data.get("result") or (rate * amount))
ConvertResult(data, rate, amount) ==
    LET x == Get(data, "result", JNull)
    IN  IF Truthy(x) THEN x.v ELSE rate * amount

\* the try block of convert_currency: the rate and result, an HTTPException,
\* or an exception that `except requests.RequestException` does not catch
ConvertFetch(r, amount) ==
    IF ProviderRaises(r)
    THEN [kind |-> "http", status |-> HTTP_BAD_GATEWAY, detail |-> "Conversion provider error"]
    ELSE IF FlagFailed(r.body)
    THEN [kind |-> "http", status |-> HTTP_BAD_GATEWAY, detail |-> "Failed to convert"]
    ELSE LET info == Get(r.body, "info", JObj(EmptyMap))
         IN  IF info.t # "obj"
             THEN [kind |-> "uncaught", status |-> HTTP_SERVER_ERROR, detail |-> "AttributeError"]
             ELSE LET rate == ConvertRate(info.v)
                  IN  [kind |-> "ok", rate |-> rate,
                       result |-> ConvertResult(r.body, rate, amount)]

\* the transaction record
BuildTx(from, to, amount, rate, result) ==
    [from_currency |-> from, to_currency |-> to, amount |-> amount, rate |-> rate,
     result |-> result]

\* `except ImportError` around the storage write
PersistCatchesImportErrorOnly(exc) == exc = "ImportError"

\* `except Exception` around the storage write catches every exception
PersistCatches(exc) == exc \in {"ImportError", "Exception"}

\* the persistence block of convert_currency
PersistTx(tx, db, st) ==
    LET write == <<[collection |-> "exchange", record |-> tx]>>
        exc == IF db = "absent" THEN "ImportError" ELSE "Exception"
        attempted == IF db = "absent" THEN <<>> ELSE write
    IN  IF db = "ok"
        THEN LET c == CreateDocument(st, tx)
             IN  [raised |-> FALSE,
                  tx |-> [k \in DOMAIN tx \cup {"id"} |-> IF k = "id" THEN c.id ELSE tx[k]],
                  writes |-> write, store |-> c.store]
        ELSE [raised |-> ~PersistCatches(exc), tx |-> tx, writes |-> attempted, store |-> st]

\* convert_currency, with the framework's validation of its payload
ConvertCurrency(p, r, db, st) ==
    IF ~ValidRequest(p)
    THEN [resp |-> [status |-> HTTP_UNPROCESSABLE, body |-> [detail |-> "validation error"]],
          outbound |-> <<>>, dbWrites |-> <<>>, store |-> st]
    ELSE
      LET from == Upper(p.from_currency)
          to == Upper(p.to_currency)
          amount == p.amount
          calls == ConvertCalls(from, to, amount)
          f == ConvertFetch(r, amount)
      IN  IF f.kind # "ok"
          THEN [resp |-> [status |-> f.status, body |-> [detail |-> f.detail]],
                outbound |-> calls, dbWrites |-> <<>>, store |-> st]
          ELSE
            LET s == PersistTx(BuildTx(from, to, amount, f.rate, f.result), db, st)
            IN  IF s.raised
                THEN [resp |-> [status |-> HTTP_SERVER_ERROR,
                                body |-> [detail |-> "Internal Server Error"]],
                      outbound |-> calls, dbWrites |-> s.writes, store |-> s.store]
                ELSE [resp |-> [status |-> HTTP_OK, body |-> s.tx],
                      outbound |-> calls, dbWrites |-> s.writes, store |-> s.store]

\* whether the request reaches the persistence block
ReachesStorage(p, r) == ValidRequest(p) /\ ConvertFetch(r, p.amount).kind = "ok"

(***************************************************************************)
(* GetRates: GET /api/rates                                                *)
(***************************************************************************)
USD == <<"U", "S", "D">>
GBP == <<"G", "B", "P">>
eurGbp == <<"e", "u", "r", ",", "g", "b", "p">>
aDate == <<"2", "0", "2", "4", "-", "0", "1", "-", "0", "2">>

\* a query parameter that is given (<<value>>) or omitted (<<>>)
BaseOpts == {<<>>, <<eUr>>}
SymbolsOpts == {<<>>, <<(<<>>)>>, <<eurGbp>>}
RatesRequests == [base : BaseOpts, symbols : SymbolsOpts]

\* the bodies of the provider's latest endpoint: {success?, base?, date?, rates?}
RatesBodies ==
    {Fields([base |-> b, date |-> d, rates |-> m]) :
        b \in {<<>>, <<JStr(GBP)>>},
        d \in {<<>>, <<JStr(aDate)>>},
        m \in {<<>>, <<JObj(EmptyMap)>>, <<JObj([EUR |-> JNum(MaxRate)])>>}}
    \cup {Fields([success |-> <<JBool(b)>>, base |-> c,
                  rates |-> <<JObj([EUR |-> JNum(MaxRate)])>>]) :
            b \in BOOLEAN, c \in {<<>>, <<JStr(GBP)>>}}

RatesReplies == FailedReplies \cup {[net |-> "ok", body |-> b] : b \in RatesBodies}

\* base: str = "USD", then base.upper()
RatesBase(q) == Upper(IF q.base = <<>> THEN USD ELSE q.base[1])

\* symbols sent whenever the parameter is given, empty or not
RatesParamsSymbolsWheneverGiven(q) ==
    IF q.symbols # <<>>
    THEN [base |-> RatesBase(q), symbols |-> Upper(q.symbols[1])]
    ELSE [base |-> RatesBase(q)]

\* params = {"base": base}; if symbols: params["symbols"] = symbols.upper()
RatesParams(q) ==
    IF q.symbols # <<>> /\ Len(q.symbols[1]) > 0
    THEN [base |-> RatesBase(q), symbols |-> Upper(q.symbols[1])]
    ELSE [base |-> RatesBase(q)]

\* the provider calls of get_rates: one requests.get
RatesCalls(q) == << [endpoint |-> "/latest", params |-> RatesParams(q)] >>

\* the snapshot get_rates returns
RatesSnapshot(data, base) ==
    [base |-> Get(data, "base", JStr(base)),
     date |-> Get(data, "date", JNull),
     rates |-> Get(data, "rates", JObj(EmptyMap))]

\* get_rates
GetRates(q, r) ==
    IF ProviderRaises(r)
    THEN [resp |-> [status |-> HTTP_BAD_GATEWAY, body |-> [detail |-> "Rates provider error"]],
          outbound |-> RatesCalls(q)]
    ELSE IF FlagFailed(r.body)
    THEN [resp |-> [status |-> HTTP_BAD_GATEWAY, body |-> [detail |-> "Failed to fetch rates"]],
          outbound |-> RatesCalls(q)]
    ELSE [resp |-> [status |-> HTTP_OK, body |-> RatesSnapshot(r.body, RatesBase(q))],
          outbound |-> RatesCalls(q)]

(***************************************************************************)
(* ListTransactions: GET /api/transactions                                 *)
(***************************************************************************)
\* limit: int = 10
DefaultLimit == 10
Limits == (0..MaxLimit) \cup {DefaultLimit}
ListRequests == [limit : Limits]

\* what the storage collaborator does in a listing: "absent": the import of
\* `database` raises ImportError; "raises": get_documents raises; "nobson": the
\* import of bson raises ImportError; "baddoc": a record returned is no mapping;
\* "ok": the records of the collection are returned
ListStates == {"absent", "raises", "nobson", "baddoc", "ok"}

\* hasattr(v, "isoformat")
HasIsoformat(x) == x.t = "datetime"

\* a serialize that leaves the key _id as it is
SerializeKeepsRawId(d) ==
    [k \in DOMAIN d |->
        IF k = "_id" THEN Str(d[k])
        ELSE IF HasIsoformat(d[k]) THEN IsoFormat(d[k])
        ELSE IF d[k].t = "ObjectId" THEN Str(d[k])
        ELSE d[k].v]

\* serialize(doc), for a mapping d
Serialize(d) ==
    LET keys == {IF k = "_id" THEN "id" ELSE k : k \in DOMAIN d}
    IN  [k \in keys |->
            IF k = "id" /\ "_id" \in DOMAIN d THEN Str(d["_id"])
            ELSE IF HasIsoformat(d[k]) THEN IsoFormat(d[k])
            ELSE IF d[k].t = "ObjectId" THEN Str(d[k])
            ELSE d[k].v]

\* doc.items() raises AttributeError unless doc is a mapping
CanSerialize(doc) == doc.t = "dict"

\* `except ImportError` around the listing
ListCatchesImportErrorOnly(exc) == exc = "ImportError"

\* `except Exception` around the listing catches every exception
ListCatches(exc) == exc \in {"ImportError", "Exception", "AttributeError"}

\* the records get_documents hands to the handler
ListDocs(ls, st, limit) ==
    IF ls = "baddoc" THEN <<PyNone>> \o GetDocuments(st, limit) ELSE GetDocuments(st, limit)

\* the try block of list_transactions: the items, or the exception raised
ListItems(ls, st, limit) ==
    LET docs == ListDocs(ls, st, limit)
    IN  IF ls = "absent" THEN [raised |-> "ImportError", items |-> <<>>]
        ELSE IF ls = "raises" THEN [raised |-> "Exception", items |-> <<>>]
        ELSE IF ls = "nobson" THEN [raised |-> "ImportError", items |-> <<>>]
        ELSE IF \E i \in 1..Len(docs) : ~CanSerialize(docs[i])
        THEN [raised |-> "AttributeError", items |-> <<>>]
        ELSE [raised |-> "none", items |-> [i \in 1..Len(docs) |-> Serialize(docs[i].v)]]

\* list_transactions
ListTransactions(q, ls, st) ==
    LET t == ListItems(ls, st, q.limit)
        reads == IF ls = "absent" THEN 0 ELSE 1
    IN  IF t.raised = "none"
        THEN [resp |-> [status |-> HTTP_OK, body |-> [items |-> t.items]], dbReads |-> reads]
        ELSE IF ListCatches(t.raised)
        THEN [resp |-> [status |-> HTTP_OK, body |-> [items |-> <<>>]], dbReads |-> reads]
        ELSE [resp |-> [status |-> HTTP_SERVER_ERROR,
                        body |-> [detail |-> "Internal Server Error"]],
              dbReads |-> reads]

(***************************************************************************)
(* GetDiagnostics: GET /test                                               *)
(***************************************************************************)
\* what the storage collaborator does in a diagnosis: "absent": the import of
\* `database` raises ImportError; "import_raises": it raises another exception;
\* "uninit": db is None; "list_raises": list_collection_names raises;
\* "healthy": the collection names are returned
DiagStates == {"absent", "import_raises", "uninit", "list_raises", "healthy"}

DiagEnvs ==
    {EnvOf(d, u, n, 0) : d \in DiagStates \ {"healthy"}, u \in BOOLEAN, n \in BOOLEAN}
    \cup {EnvOf("healthy", u, n, c) : u \in BOOLEAN, n \in BOOLEAN,
                                        c \in {0, MaxCollections - 1, MaxCollections}}

\* the names db.list_collection_names() returns
CollectionNames(e) == [i \in 1..e.ncols |-> i]

\* the length of the slice collections[:10]
DiagSliceLen == 10

\* the collections without the slice
DiagSliceAll(c) == c

\* collections[:10]
DiagSlice(c) == [i \in 1..(IF Len(c) < DiagSliceLen THEN Len(c) ELSE DiagSliceLen) |-> c[i]]

\* `except ImportError` and `except Exception` of test_database
DiagCatches(exc) == exc \in {"ImportError", "Exception"}

\* the database tier and the collections after the try block of test_database
DiagProbe(e) ==
    CASE e.db = "absent" ->
            [raised |-> "ImportError", database |-> "Database module not found",
             connection_status |-> "Not Connected", collections |-> <<>>]
      [] e.db = "import_raises" ->
            [raised |-> "Exception", database |-> "Error",
             connection_status |-> "Not Connected", collections |-> <<>>]
      [] e.db = "uninit" ->
            [raised |-> "none", database |-> "Available but not initialized",
             connection_status |-> "Not Connected", collections |-> <<>>]
      [] e.db = "list_raises" ->
            [raised |-> "none", database |-> "Connected but Error",
             connection_status |-> "Connected", collections |-> <<>>]
      [] e.db = "healthy" ->
            [raised |-> "none", database |-> "Connected & Working",
             connection_status |-> "Connected", collections |-> DiagSlice(CollectionNames(e))]

\* test_database
TestDatabase(e) ==
    LET t == DiagProbe(e)
    IN  IF t.raised # "none" /\ ~DiagCatches(t.raised)
        THEN [status |-> HTTP_SERVER_ERROR, body |-> [detail |-> "Internal Server Error"]]
        ELSE [status |-> HTTP_OK,
              body |-> [backend |-> "Running",
                        database |-> t.database,
                        database_url |-> IF e.url THEN "Set" ELSE "Not Set",
                        database_name |-> IF e.name THEN "Set" ELSE "Not Set",
                        connection_status |-> t.connection_status,
                        collections |-> t.collections]]

NoReq == [none |-> TRUE]
NoResp == [status |-> 0, body |-> [detail |-> "none"]]

Init ==
    /\ pc = "idle"
    /\ op = "none"
    /\ req = NoReq
    /\ reply = NoReply
    /\ env = NoEnv
    /\ outbound = <<>>
    /\ dbWrites = <<>>
    /\ dbReads = 0
    /\ resp = NoResp
    /\ store = <<>>

ConvertStep(p, r, db) ==
    LET out == ConvertCurrency(p, r, db, store)
    IN  /\ pc = "idle"
        /\ Len(out.store) <= MaxStore
        /\ pc' = "done"
        /\ op' = "convert"
        /\ req' = p
        /\ reply' = r
        /\ env' = EnvOf(db, FALSE, FALSE, 0)
        /\ outbound' = out.outbound
        /\ dbWrites' = out.dbWrites
        /\ dbReads' = 0
        /\ resp' = out.resp
        /\ store' = out.store

\* POST /api/convert: a request, the provider's reply if the provider is called,
\* the storage collaborator's state if the persistence block is reached
DoConvert ==
    \E p \in ConvertRequests :
        \E r \in (IF ValidRequest(p) THEN ConvertReplies ELSE {NoReply}) :
            \E db \in (IF ReachesStorage(p, r) THEN DbStates ELSE {"unused"}) :
                ConvertStep(p, r, db)

\* the response is sent and the request's values are discarded
Complete ==
    /\ pc = "done"
    /\ pc' = "idle"
    /\ op' = "none"
    /\ req' = NoReq
    /\ reply' = NoReply
    /\ env' = NoEnv
    /\ outbound' = <<>>
    /\ dbWrites' = <<>>
    /\ dbReads' = 0
    /\ resp' = NoResp
    /\ UNCHANGED store

\* GET /api/rates: a request and the provider's reply
DoRates ==
    \E q \in RatesRequests : \E r \in RatesReplies :
        LET out == GetRates(q, r)
        IN  /\ pc = "idle"
            /\ pc' = "done"
            /\ op' = "rates"
            /\ req' = q
            /\ reply' = r
            /\ env' = NoEnv
            /\ outbound' = out.outbound
            /\ dbWrites' = <<>>
            /\ dbReads' = 0
            /\ resp' = out.resp
            /\ UNCHANGED store

\* GET /api/transactions: a request and the storage collaborator's state
DoList ==
    \E q \in ListRequests : \E ls \in ListStates :
        LET out == ListTransactions(q, ls, store)
        IN  /\ pc = "idle"
            /\ pc' = "done"
            /\ op' = "list"
            /\ req' = q
            /\ reply' = NoReply
            /\ env' = EnvOf(ls, FALSE, FALSE, 0)
            /\ outbound' = <<>>
            /\ dbWrites' = <<>>
            /\ dbReads' = out.dbReads
            /\ resp' = out.resp
            /\ UNCHANGED store

\* GET /test: the storage collaborator's state and the environment
DoDiag ==
    \E e \in DiagEnvs :
        /\ pc = "idle"
        /\ pc' = "done"
        /\ op' = "diag"
        /\ req' = NoReq
        /\ reply' = NoReply
        /\ env' = e
        /\ outbound' = <<>>
        /\ dbWrites' = <<>>
        /\ dbReads' = 0
        /\ resp' = TestDatabase(e)
        /\ UNCHANGED store

Next ==
    \/ DoConvert
    \/ DoRates
    \/ DoList
    \/ DoDiag
    \/ Complete

Spec == Init /\ [][Next]_vars

(***************************************************************************)
(* What the properties below read off a state.                             *)
(***************************************************************************)
\* the handler o has returned
Done(o) == pc = "done" /\ op = o

\* a conversion request that violates the constraints of its payload
InvalidInput(p) ==
    p.amount < 0 \/ Len(p.from_currency) # 3 \/ Len(p.to_currency) # 3

\* the provider call failed: transport error, non-2xx status, or failure flag
ReplyFailed(r) ==
    \/ r.net \in {"transport", "http_error"}
    \/ r.net = "ok" /\ "success" \in DOMAIN r.body /\ r.body["success"] = JBool(FALSE)

\* the provider's body has the shape {success?, info?: {rate?}, result?}
ReplyShaped(r) ==
    r.net = "ok" /\ ("info" \in DOMAIN r.body => r.body["info"].t = "obj")

\* the provider call succeeded and its body could be read
ReplyUsable(r) == ReplyShaped(r) /\ ~ReplyFailed(r)

\* the provider's info.rate, 0 if absent
ReplyRate(r) ==
    IF "info" \in DOMAIN r.body /\ "rate" \in DOMAIN r.body["info"].v
    THEN r.body["info"].v["rate"].v
    ELSE 0

TxKeys == {"from_currency", "to_currency", "amount", "rate", "result"}

\* the five conversion fields of a response, <<>> if it is no conversion result
TxFields(r) == IF r.status = HTTP_OK THEN [k \in TxKeys |-> r.body[k]] ELSE <<>>

C2_PersistenceIsBestEffort ==
    (Done("convert") /\ ~InvalidInput(req) /\ ReplyUsable(reply)) =>
        /\ resp.status = HTTP_OK
        /\ \A d \in DbStates :
              TxFields(ConvertCurrency(req, reply, d, <<>>).resp) = TxFields(resp)
        /\ ("id" \in DOMAIN resp.body) <=> (env.db = "ok")
        /\ env.db = "ok" =>
              /\ store # <<>>
              /\ resp.body["id"] =
                    CreateDocument(SubSeq(store, 1, Len(store) - 1), TxFields(resp)).id
        /\ Len(dbWrites) = (IF env.db = "absent" THEN 0 ELSE 1)

C2_Witness ==
    /\ Done("convert")
    /\ ReplyUsable(reply)
    /\ env.db = "raises"
    /\ resp.status = HTTP_OK
    /\ "id" \notin DOMAIN resp.body
    /\ resp.body["result"] = MaxResult

C4_ProviderFailureAborts ==
    (pc = "done" /\ op \in {"convert", "rates"} /\ ReplyFailed(reply)) =>
        (resp.status = HTTP_BAD_GATEWAY /\ dbWrites = <<>>)

C4_Witness ==
    /\ Done("rates")
    /\ reply.net = "ok"
    /\ ReplyFailed(reply)
    /\ "rates" \in DOMAIN reply.body
    /\ resp.status = HTTP_BAD_GATEWAY

\* C5: a listing whose storage collaborator is absent or fails (module
\* missing, query raising, bson missing, a record that cannot be normalised)
\* is answered 200 with {items: []}, for every limit.
C5_ListingDegradesToEmpty ==
    (Done("list") /\ env.db # "ok") =>
        (resp.status = HTTP_OK /\ resp.body = [items |-> <<>>])

C5_Witness ==
    /\ Done("list")
    /\ env.db = "baddoc"
    /\ req.limit >= 1
    /\ Len(store) = MaxStore
    /\ resp.body = [items |-> <<>>]

\* C6: the diagnosis is answered 200 in every state of the storage
\* collaborator, writes nothing to storage and reports at most 10 collections.
C6_DiagnosticsAlwaysOk ==
    Done("diag") =>
        /\ resp.status = HTTP_OK
        /\ dbWrites = <<>>
        /\ Len(resp.body.collections) <= 10
        /\ \A i \in 1..Len(resp.body.collections) : resp.body.collections[i] = i

C6_Witness ==
    /\ Done("diag")
    /\ env.db = "healthy"
    /\ env.ncols > 10
    /\ Len(resp.body.collections) = 10

\* C7: after a conversion whose storage write succeeded, a listing with
\* healthy storage and limit >= 1 returns, as its first item, the conversion's
\* from_currency, to_currency, amount, rate and result, with id the string form
\* of the stored identifier and no _id field.
C7_RoundTrip ==
    (Done("convert") /\ resp.status = HTTP_OK /\ "id" \in DOMAIN resp.body) =>
        \A l \in Limits \ {0} :
            LET out == ListTransactions([limit |-> l], "ok", store).resp
                item == out.body.items[1]
            IN  /\ out.status = HTTP_OK
                /\ Len(out.body.items) >= 1
                /\ Len(out.body.items) <= l
                /\ \A k \in TxKeys : k \in DOMAIN item /\ item[k] = resp.body[k]
                /\ "id" \in DOMAIN item
                /\ "_id" \notin DOMAIN item
                /\ item["id"] = Str(store[Len(store)].v["_id"])
                /\ item["id"] = resp.body["id"]

C7_Witness ==
    /\ Done("convert")
    /\ resp.status = HTTP_OK
    /\ "id" \in DOMAIN resp.body
    /\ Len(store) = 2
    /\ store[1].v["amount"] # store[2].v["amount"]
    /\ ListTransactions([limit |-> 1], "ok", store).resp.body.items[1]["id"] = <<"o", "i", "d", "2">>

\* C8: no handler retries: a request issues at most one provider call, at most
\* one storage write and at most one storage read; a failed provider call is
\* called once and answered by one 502; a failed storage call is attempted
\* once and answered 200.
C8_NoRetries ==
    pc = "done" =>
        /\ Len(outbound) <= 1
        /\ Len(dbWrites) <= 1
        /\ dbReads <= 1
        /\ (op \in {"convert", "rates"} /\ ReplyFailed(reply)) =>
              (Len(outbound) = 1 /\ resp.status = HTTP_BAD_GATEWAY)
        /\ (op = "convert" /\ env.db = "raises") =>
              (Len(dbWrites) = 1 /\ Len(outbound) = 1 /\ resp.status = HTTP_OK)
        /\ (op = "list" /\ env.db = "raises") =>
              (dbReads = 1 /\ resp.status = HTTP_OK)

C8_Witness ==
    /\ Done("convert")
    /\ reply.net = "transport"
    /\ Len(outbound) = 1
    /\ resp.status = HTTP_BAD_GATEWAY

\* C9: a rate lookup sends the provider the upper-cased base and, only when
\* symbols is given and not empty, the upper-cased symbols; on a successful
\* reply it returns the provider's base if present, else the upper-cased
\* request base, the provider's date, and the provider's rates, or an empty
\* mapping if the provider gives none.
C9_RatesPassThrough ==
    Done("rates") =>
        LET given == IF req.base = <<>> THEN USD ELSE req.base[1]
            params == outbound[1].params
            sent == req.symbols # <<>> /\ req.symbols[1] # <<>>
        IN  /\ Len(outbound) = 1
            /\ outbound[1].endpoint = "/latest"
            /\ params.base = Upper(given)
            /\ ("symbols" \in DOMAIN params) <=> sent
            /\ sent => params.symbols = Upper(req.symbols[1])
            /\ DOMAIN params \subseteq {"base", "symbols"}
            /\ ~ReplyFailed(reply) =>
                  /\ resp.status = HTTP_OK
                  /\ resp.body.base =
                        (IF "base" \in DOMAIN reply.body THEN reply.body["base"]
                         ELSE JStr(Upper(given)))
                  /\ resp.body.date =
                        (IF "date" \in DOMAIN reply.body THEN reply.body["date"] ELSE JNull)
                  /\ resp.body.rates =
                        (IF "rates" \in DOMAIN reply.body THEN reply.body["rates"]
                         ELSE JObj(EmptyMap))

C9_Witness ==
    /\ Done("rates")
    /\ req.base = <<eUr>>
    /\ req.symbols = <<eurGbp>>
    /\ outbound[1].params.base = <<"E", "U", "R">>
    /\ outbound[1].params.symbols = <<"E", "U", "R", ",", "G", "B", "P">>
    /\ resp.status = HTTP_OK
    /\ "base" \notin DOMAIN reply.body
    /\ resp.body.base = JStr(<<"E", "U", "R">>)
    /\ resp.body.rates = JObj(EmptyMap)

\* C10 (as stated): a successful conversion returns the upper-cased codes, the
\* request's amount, rate = the provider's info.rate or 0, and result = the
\* provider's result whenever the provider gives one, 0 included; it falls
\* back to rate * amount only when the provider omits the result.
C10_Original ==
    (Done("convert") /\ resp.status = HTTP_OK) =>
        /\ resp.body["from_currency"] = Upper(req.from_currency)
        /\ resp.body["to_currency"] = Upper(req.to_currency)
        /\ resp.body["amount"] = req.amount
        /\ resp.body["rate"] = ReplyRate(reply)
        /\ ("result" \in DOMAIN reply.body /\ reply.body["result"].t = "num") =>
              resp.body["result"] = reply.body["result"].v
        /\ "result" \notin DOMAIN reply.body =>
              resp.body["result"] = ReplyRate(reply) * req.amount

\* C10 (amended): a successful conversion returns the upper-cased codes, the
\* request's amount, rate = the provider's info.rate or 0, and result = the
\* provider's result when the provider gives one that is not 0 or null; it
\* falls back to rate * amount when the result is omitted, null or 0.
C10_ConversionResult ==
    (Done("convert") /\ resp.status = HTTP_OK) =>
        /\ resp.body["from_currency"] = Upper(req.from_currency)
        /\ resp.body["to_currency"] = Upper(req.to_currency)
        /\ resp.body["amount"] = req.amount
        /\ resp.body["rate"] = ReplyRate(reply)
        /\ resp.body["result"] =
              (IF "result" \in DOMAIN reply.body /\ reply.body["result"].t = "num"
                  /\ reply.body["result"].v # 0
               THEN reply.body["result"].v
               ELSE ReplyRate(reply) * req.amount)

C10_Witness ==
    /\ Done("convert")
    /\ resp.status = HTTP_OK
    /\ "result" \in DOMAIN reply.body
    /\ reply.body["result"] = JNum(0)
    /\ resp.body["from_currency"] = <<"U", "S", "D">>
    /\ resp.body["to_currency"] = <<"E", "U", "R">>
    /\ resp.body["rate"] = MaxRate
    /\ resp.body["result"] = MaxRate * MaxAmount

====
